---- MODULE Spec2Model ----
(***************************************************************************)
(* Model of scripts/tts_batch_generator.py: the batch runner that loads    *)
(* quest records, filters out the ones whose audio file already exists,    *)
(* and renders the rest one by one through the ElevenLabs client.          *)
(*                                                                         *)
(* One process invocation (main) is the sequence                           *)
(*   Construct -> LoadQuests -> FilterExisting -> DryRunOrStart            *)
(*             -> GenerateAudio* -> Summary                                *)
(* and the output directory survives from one invocation to the next.      *)
(* Command-line arguments and file contents are inputs; each is drawn at   *)
(* the step of run_batch that first reads it.  Strings whose content the   *)
(* code inspects (quest texts, file names) are sequences of characters.    *)
(***************************************************************************)
EXTENDS Integers, Sequences, FiniteSets, TLC

\* ------------------------------------------------------------------ bounds

\* Longest quest list a source file holds.
MaxLen == 2

\* The quest ids tried: from_dict's default id and a two-digit one.
QuestIds == {0, 12}

\* ------------------------------------------------------------------ strings

\* An optional string: None, or a sequence of characters.
NoneStr == [isNone |-> TRUE, s |-> <<>>]

Str(s) == [isNone |-> FALSE, s |-> s]

\* Python truthiness of an optional string: None and "" are falsy.
Truthy(o) == ~o.isNone /\ o.s # <<>>

\* `x or ""`.
OrEmpty(o) == IF Truthy(o) THEN o.s ELSE <<>>

IsSpace(c) == c = " "

RECURSIVE LStrip(_)
LStrip(s) == IF s # <<>> /\ IsSpace(Head(s)) THEN LStrip(Tail(s)) ELSE s

RECURSIVE RStrip(_)
RStrip(s) ==
    IF s # <<>> /\ IsSpace(s[Len(s)]) THEN RStrip(SubSeq(s, 1, Len(s) - 1)) ELSE s

\* str.strip()
Strip(s) == RStrip(LStrip(s))

DigitChars == <<"0", "1", "2", "3", "4", "5", "6", "7", "8", "9">>

IsDigit(c) == \E i \in 1..Len(DigitChars) : DigitChars[i] = c

DigitVal(c) == (CHOOSE i \in 1..Len(DigitChars) : DigitChars[i] = c) - 1

\* The decimal rendering of a natural number in an f-string.
RECURSIVE IntToStr(_)
IntToStr(n) ==
    IF n < 10 THEN <<DigitChars[n + 1]>>
    ELSE IntToStr(n \div 10) \o <<DigitChars[(n % 10) + 1]>>

\* int(s) accepts a non-empty run of digits (the alphabet has no sign,
\* underscore or blank); anything else raises ValueError.
IsIntLiteral(s) == s # <<>> /\ \A i \in 1..Len(s) : IsDigit(s[i])

RECURSIVE StrToInt(_)
StrToInt(s) ==
    IF s = <<>> THEN 0
    ELSE 10 * StrToInt(SubSeq(s, 1, Len(s) - 1)) + DigitVal(s[Len(s)])

\* ------------------------------------------------------------------ quests

\* The (title, description) pairs a record may carry.
QuestTexts ==
    { [title |-> Str(<<>>),    description |-> Str(<<" ">>)],
      [title |-> Str(<<"A">>), description |-> NoneStr] }

Quest ==
    { [quest_id |-> i, title |-> t.title, description |-> t.description] :
        i \in QuestIds, t \in QuestTexts }

QuestLists == UNION { [1..n -> Quest] : n \in 0..MaxLen }

\* Quest.tts_text
TtsText(q) ==
    IF Truthy(q.title)
    THEN q.title.s \o <<".", " ">> \o OrEmpty(q.description)
    ELSE OrEmpty(q.description)

\* ------------------------------------------------------------------ configuration

\* The entries of tts_config.json the run reads after start-up.  A
\* configuration is the set of entries it lacks ("api_key" lacking means
\* the placeholder key, so no client is built).
ConfigEntries == {"api_key", "voice_profiles", "voice_id", "model_id", "audio_output"}

\* The configurations tried: complete, or lacking one entry.
Configs == {{}} \cup { {e} : e \in ConfigEntries }

\* config["voice_profiles"]: profile name -> voice id.
VoiceProfiles == [neutral_male |-> "voice_nm"]

\* config["elevenlabs"]["voice_id"]
DefaultVoiceId == "voice_default"

\* The absent voice_profile argument (None).
NoVoice == "<None>"

\* Values of the voice_profile argument: None, "", a profile of the table,
\* a name the table lacks.
VoiceArgs == {NoVoice, "", "neutral_male", "epic_narrator"}

\* Values of the quest_ids argument: None/[] (the empty sequence; both are
\* falsy) or a list of ids.
QuestIdArgs == {<<>>} \cup { <<i>> : i \in QuestIds }

\* ------------------------------------------------------------------ output directory

\* A file name is a sequence of tokens, e.g. <<"quest_", "1", "2", ".mp3">>.
FileName(quest_id) == <<"quest_">> \o IntToStr(quest_id) \o <<".mp3">>

\* Files a user may have left in the directory before the first run.
ForeignFiles ==
    { <<"quest_", "0", "0", ".mp3">>, <<"quest_", "x", ".mp3">>, <<"notes", ".txt">> }

\* audio_dir.glob("quest_*.mp3")
GlobMatches(name) ==
    Len(name) >= 2 /\ name[1] = "quest_" /\ name[Len(name)] = ".mp3"

\* Path.stem: the name without its last suffix.
Stem(name) == SubSeq(name, 1, Len(name) - 1)

\* str.replace("quest_", ""): every occurrence goes.
RemovePrefix(s) == SelectSeq(s, LAMBDA c : c # "quest_")

\* Variant of GetExisting: without the replace, int("quest_12") raises for
\* every file and nothing is added.
GetExisting_NoReplace(fs) ==
    { StrToInt(Stem(name)) :
        name \in { n \in DOMAIN fs : GlobMatches(n) /\ IsIntLiteral(Stem(n)) } }

\* get_existing_audio_files, the scan (the mkdir is part of the action).
GetExisting(fs) ==
    { StrToInt(RemovePrefix(Stem(name))) :
        name \in { n \in DOMAIN fs :
                     GlobMatches(n) /\ IsIntLiteral(RemovePrefix(Stem(n))) } }

\* Content of a file: foreign bytes, a truncated stream, or a whole stream.
Foreign == "foreign"

Partial == "partial"

Complete == "complete"

\* What one text_to_speech.convert + write can do: convert raises, open()
\* raises, the byte stream breaks after open(), or all chunks arrive.
ApiOutcomes == {"convert_raises", "open_raises", "stream_breaks", "ok"}

\* ------------------------------------------------------------------ state

VARIABLES
    audioDir,       \* the output directory: "absent", "present", or "blocked" (mkdir fails)
    files,          \* the output directory's files: name -> content
    pc,             \* position of the process: "idle", "load", "filter", "branch", "loop", "exited"
    status,         \* how the last process ended
    config,         \* self.config, as the set of entries it lacks
    from_export,    \* run_batch arguments ...
    quest_ids,
    skip_existing,
    dry_run,
    voice_profile,
    loaded,         \* the records as loaded (quests before the filter)
    existing,       \* what get_existing_audio_files returned
    quests,         \* the records after the filter
    idx,            \* how many records the loop has taken
    successful,
    failed,
    results,        \* what generate_audio did for each record taken: "path", "none", "raised"
    calls,          \* the text_to_speech.convert calls of this process, in order
    startFiles,     \* the files as they were when this process started
    succeeded       \* ids for which some generate_audio returned the output path

vars ==
    << audioDir, files, pc, status, config, from_export, quest_ids, skip_existing,
       dry_run, voice_profile, loaded, existing, quests, idx, successful, failed,
       results, calls, startFiles, succeeded >>

args == << from_export, quest_ids, skip_existing, dry_run, voice_profile >>

locals == << loaded, existing, quests, idx, successful, failed >>

\* The state of a process that has not read its arguments yet.
FreshProcess ==
    /\ from_export' = FALSE
    /\ quest_ids' = <<>>
    /\ skip_existing' = TRUE
    /\ dry_run' = FALSE
    /\ voice_profile' = NoVoice
    /\ loaded' = <<>>
    /\ existing' = {}
    /\ quests' = <<>>
    /\ idx' = 0
    /\ successful' = 0
    /\ failed' = 0
    /\ results' = <<>>
    /\ calls' = <<>>

\* The output directory before the first run: not there yet, not creatable,
\* or there with some files of the user's.
InitDirs ==
    { [dir |-> "absent", files |-> <<>>], [dir |-> "blocked", files |-> <<>>] }
        \cup { [dir |-> "present", files |-> [n \in ForeignFiles |-> Foreign]] }

Init ==
    /\ \E d \in InitDirs : audioDir = d.dir /\ files = d.files
    /\ pc = "idle"
    /\ status = "none"
    /\ config = {}
    /\ from_export = FALSE
    /\ quest_ids = <<>>
    /\ skip_existing = TRUE
    /\ dry_run = FALSE
    /\ voice_profile = NoVoice
    /\ loaded = <<>>
    /\ existing = {}
    /\ quests = <<>>
    /\ idx = 0
    /\ successful = 0
    /\ failed = 0
    /\ results = <<>>
    /\ calls = <<>>
    /\ startFiles = files
    /\ succeeded = {}

\* ------------------------------------------------------------------ operations

\* main: TTSBatchGenerator(config_path) loads the configuration and builds
\* the client; a new process starts when none is running.
Construct ==
    /\ pc \in {"idle", "exited"}
    /\ \E cfg \in Configs : config' = cfg
    /\ pc' = "load"
    /\ status' = "running"
    /\ FreshProcess
    /\ startFiles' = files
    /\ UNCHANGED << audioDir, files, succeeded >>

\* The records run_batch keeps of a source file's records.
LoadedFrom(fromExport, ids, data) ==
    IF fromExport THEN data
    ELSE IF ids # <<>>
         THEN SelectSeq(data, LAMBDA q : \E i \in 1..Len(ids) : ids[i] = q.quest_id)
         ELSE data

\* run_batch, "Quests laden": the export or the primary file is read; a
\* missing file raises FileNotFoundError, which main turns into exit 1.
LoadQuests ==
    /\ pc = "load"
    /\ \E fe \in BOOLEAN, ids \in QuestIdArgs :
        /\ from_export' = fe
        /\ quest_ids' = ids
        /\ \/ /\ pc' = "exited"
              /\ status' = "load_error"
              /\ loaded' = <<>>
           \/ \E data \in QuestLists :
              /\ loaded' = LoadedFrom(fe, ids, data)
              /\ pc' = "filter"
              /\ status' = status
    /\ UNCHANGED << audioDir, files, config, skip_existing, dry_run, voice_profile,
                    existing, quests, idx, successful, failed, results, calls,
                    startFiles, succeeded >>

\* Variant of WithoutExisting: the filter keeps every record.
WithoutExisting_KeepAll(qs, ex) == qs

\* quests = [q for q in quests if q.quest_id not in existing]
WithoutExisting(qs, ex) == SelectSeq(qs, LAMBDA q : q.quest_id \notin ex)

\* run_batch, "Bereits vorhandene ueberspringen" and the empty check.  The
\* scan reads config["paths"]["audio_output"] and creates the directory;
\* either may raise, and the exception leaves run_batch.
FilterExisting ==
    /\ pc = "filter"
    /\ \E skip \in BOOLEAN :
        /\ skip_existing' = skip
        /\ IF skip /\ ("audio_output" \in config \/ audioDir = "blocked")
           THEN /\ pc' = "exited"
                /\ status' = "scan_error"
                /\ UNCHANGED << audioDir, existing, quests >>
           ELSE /\ audioDir' = IF skip THEN "present" ELSE audioDir
                /\ existing' = IF skip THEN GetExisting(files) ELSE {}
                /\ quests' = IF skip THEN WithoutExisting(loaded, GetExisting(files))
                                     ELSE loaded
                /\ IF quests' = <<>>
                   THEN pc' = "exited" /\ status' = "nothing"
                   ELSE pc' = "branch" /\ status' = status
    /\ UNCHANGED << files, config, from_export, quest_ids, dry_run, voice_profile,
                    loaded, idx, successful, failed, results, calls, startFiles,
                    succeeded >>

\* Variant of DryRunOrStart: the dry-run branch lacks its return.
DryRunOrStart_NoReturn ==
    /\ pc = "branch"
    /\ \E dry \in BOOLEAN, vp \in VoiceArgs :
        /\ dry_run' = dry
        /\ voice_profile' = vp
        /\ pc' = "loop"
        /\ status' = status
        /\ from_export' = FALSE
        /\ quest_ids' = <<>>
        /\ loaded' = <<>>
        /\ existing' = {}
    /\ idx' = 0
    /\ successful' = 0
    /\ failed' = 0
    /\ UNCHANGED << audioDir, files, config, skip_existing, quests, results, calls,
                    startFiles, succeeded >>

\* run_batch, "Dry-Run: Nur anzeigen": the preview ends the run; otherwise
\* the counters start at zero and the loop begins.  The loop reads only
\* quests and voice_profile: the arguments and locals the code never reads
\* again (from_export, quest_ids, all_quests, existing) leave the state.
DryRunOrStart ==
    /\ pc = "branch"
    /\ \E dry \in BOOLEAN :
        /\ dry_run' = dry
        /\ IF dry
           THEN /\ pc' = "exited"
                /\ status' = "dry"
                /\ UNCHANGED << voice_profile, from_export, quest_ids, loaded, existing >>
           ELSE /\ pc' = "loop"
                /\ status' = status
                /\ \E vp \in VoiceArgs : voice_profile' = vp
                /\ from_export' = FALSE
                /\ quest_ids' = <<>>
                /\ loaded' = <<>>
                /\ existing' = {}
    /\ idx' = 0
    /\ successful' = 0
    /\ failed' = 0
    /\ UNCHANGED << audioDir, files, config, skip_existing, quests, results, calls,
                    startFiles, succeeded >>

\* Variant of IsBlank: `if not text`.
IsBlank_NoStrip(text) == text = <<>>

\* `if not text.strip()`
IsBlank(text) == Strip(text) = <<>>

\* Variant of ResolveVoice: the profile table is never consulted.
ResolveVoice_AlwaysDefault(cfg, vp) ==
    IF "voice_id" \in cfg THEN [raised |-> TRUE, voice_id |-> "-"]
    ELSE [raised |-> FALSE, voice_id |-> DefaultVoiceId]

\* generate_audio, "Voice-ID aus Profil oder Default": the voice id, or a
\* KeyError when the entry read is not in the configuration.  The table is
\* read only for a truthy profile name.
ResolveVoice(cfg, vp) ==
    IF vp \notin {NoVoice, ""} /\ "voice_profiles" \in cfg
    THEN [raised |-> TRUE, voice_id |-> "-"]
    ELSE IF vp \notin {NoVoice, ""} /\ vp \in DOMAIN VoiceProfiles
    THEN [raised |-> FALSE, voice_id |-> VoiceProfiles[vp]]
    ELSE IF "voice_id" \in cfg
    THEN [raised |-> TRUE, voice_id |-> "-"]
    ELSE [raised |-> FALSE, voice_id |-> DefaultVoiceId]

\* Variant of WriteFile: a file whose stream broke is removed again.
WriteFile_RemoveOnError(fs, name, content) ==
    IF content = Partial
    THEN [n \in DOMAIN fs \ {name} |-> fs[n]]
    ELSE [n \in DOMAIN fs \cup {name} |-> IF n = name THEN content ELSE fs[n]]

\* open(output_path, "wb") followed by the chunk loop: the file is created
\* or truncated, then holds what arrived.
WriteFile(fs, name, content) ==
    [n \in DOMAIN fs \cup {name} |-> IF n = name THEN content ELSE fs[n]]

\* What generate_audio leaves behind and returns.
Outcome(result, fs, dir, call) ==
    [result |-> result, files |-> fs, dir |-> dir, calls |-> call]

\* generate_audio(quest, voice_profile), with the API behaving as `api`.
GenerateAudioResult(q, vp, cfg, fs, dir, api) ==
    LET text  == TtsText(q)
        voice == ResolveVoice(cfg, vp)
        name  == FileName(q.quest_id)
        call  == << [quest_id |-> q.quest_id, voice_id |-> voice.voice_id, text |-> text] >>
    IN  IF "api_key" \in cfg THEN Outcome("none", fs, dir, <<>>)
        ELSE IF IsBlank(text) THEN Outcome("none", fs, dir, <<>>)
        ELSE IF voice.raised THEN Outcome("raised", fs, dir, <<>>)
        ELSE IF "audio_output" \in cfg \/ dir = "blocked" THEN Outcome("raised", fs, dir, <<>>)
        ELSE IF "model_id" \in cfg THEN Outcome("none", fs, "present", <<>>)
        ELSE IF api \in {"convert_raises", "open_raises"}
             THEN Outcome("none", fs, "present", call)
        ELSE IF api = "stream_breaks"
             THEN Outcome("none", WriteFile(fs, name, Partial), "present", call)
        ELSE Outcome("path", WriteFile(fs, name, Complete), "present", call)

\* One turn of `for quest in tqdm(quests)`: generate_audio, then the tally.
\* An exception generate_audio lets out leaves run_batch too; main prints it
\* and exits with 1.
GenerateAudio ==
    /\ pc = "loop"
    /\ idx < Len(quests)
    /\ \E api \in ApiOutcomes :
        LET q == quests[idx + 1]
            r == GenerateAudioResult(q, voice_profile, config, files, audioDir, api)
        IN  /\ files' = r.files
            /\ audioDir' = r.dir
            /\ calls' = calls \o r.calls
            /\ results' = Append(results, r.result)
            /\ idx' = idx + 1
            /\ succeeded' = IF r.result = "path" THEN succeeded \cup {q.quest_id} ELSE succeeded
            /\ IF r.result = "raised"
               THEN /\ pc' = "exited"
                    /\ status' = "aborted"
                    /\ UNCHANGED << successful, failed >>
               ELSE /\ pc' = pc
                    /\ status' = status
                    /\ successful' = IF r.result = "path" THEN successful + 1 ELSE successful
                    /\ failed' = IF r.result = "path" THEN failed ELSE failed + 1
    /\ UNCHANGED << config, args, loaded, existing, quests, startFiles >>

\* The final print after the loop.
Summary ==
    /\ pc = "loop"
    /\ idx = Len(quests)
    /\ pc' = "exited"
    /\ status' = "summary"
    /\ UNCHANGED << audioDir, files, config, args, locals, results, calls, startFiles,
                    succeeded >>

Next ==
    \/ Construct
    \/ LoadQuests
    \/ FilterExisting
    \/ DryRunOrStart
    \/ GenerateAudio
    \/ Summary

Spec == Init /\ [][Next]_vars

\* The same process from an empty output directory.
InitEmptyDir == Init /\ audioDir = "absent"

SpecEmptyDir == InitEmptyDir /\ [][Next]_vars

\* ------------------------------------------------------------------ properties

\* A text that is empty or holds blanks only.
AllSpaces(text) == \A i \in 1..Len(text) : text[i] = " "

\* The run has passed the filter and not yet entered the loop.
PastFilter == pc = "branch" \/ (pc = "exited" /\ status \in {"nothing", "dry"})

\* The positions of the loaded records the filter has to keep.
KeptPositions ==
    { i \in 1..Len(loaded) : skip_existing => loaded[i].quest_id \notin existing }

\* C1: after the filter of run_batch, the records handed on are the loaded
\* records without those whose quest_id get_existing_audio_files returned
\* when skip_existing is on, and all loaded records when it is off.
C1_FilterIsSetDifference ==
    PastFilter =>
        /\ { quests[i] : i \in 1..Len(quests) } = { loaded[i] : i \in KeptPositions }
        /\ Len(quests) = Cardinality(KeptPositions)
        /\ ~skip_existing => quests = loaded

C1_Witness ==
    /\ pc = "branch"
    /\ skip_existing
    /\ existing # {}
    /\ quests # <<>>
    /\ Len(quests) < Len(loaded)

\* C2: a run with dry_run on never calls the synthesis API and leaves every
\* output file as it was when the run started.
C2_DryRunTouchesNothing ==
    dry_run => calls = <<>> /\ files = startFiles

C2_Witness ==
    /\ pc = "exited"
    /\ status = "dry"
    /\ dry_run
    /\ ~skip_existing
    /\ quests # <<>>
    /\ \E i \in 1..Len(quests) : FileName(quests[i].quest_id) \in DOMAIN files

C4_NoCallForRendered ==
    skip_existing =>
        /\ \A k \in 1..Len(calls) : FileName(calls[k].quest_id) \notin DOMAIN startFiles
        /\ \A i \in 1..Len(quests) : FileName(quests[i].quest_id) \notin DOMAIN startFiles

C4_Witness ==
    /\ pc = "exited"
    /\ status = "nothing"
    /\ skip_existing
    /\ loaded # <<>>
    /\ \A i \in 1..Len(loaded) :
        /\ loaded[i].quest_id \in succeeded
        /\ FileName(loaded[i].quest_id) \in DOMAIN startFiles
    /\ calls = <<>>

\* The files the scan attributes to an id.
FilesOf(id) ==
    { n \in DOMAIN files :
        /\ GlobMatches(n)
        /\ IsIntLiteral(RemovePrefix(Stem(n)))
        /\ StrToInt(RemovePrefix(Stem(n))) = id }

\* C5: from an empty output directory, every id has at most one output
\* file, and an id's output file exists only if some generate_audio call
\* for that id returned the output path.
C5_FileProvesSuccess ==
    \A id \in QuestIds :
        /\ Cardinality(FilesOf(id)) <= 1
        /\ FileName(id) \in DOMAIN files => id \in succeeded

\* C6: the voice id passed to the API is the table entry's voice id when
\* the profile name is a key of the voice-profile table, and the configured
\* default voice id when the name is omitted or not a key.
C6_VoiceResolution ==
    \A k \in 1..Len(calls) :
        calls[k].voice_id =
            IF voice_profile \in DOMAIN VoiceProfiles
            THEN VoiceProfiles[voice_profile]
            ELSE DefaultVoiceId

C6_Witness ==
    /\ calls # <<>>
    /\ voice_profile = "epic_narrator"
    /\ calls[1].voice_id = DefaultVoiceId

\* C7: every generate_audio call returns the output path or an empty
\* result; none lets an exception out to run_batch.
C7_NoExceptionEscapes ==
    /\ \A i \in 1..Len(results) : results[i] \in {"path", "none"}
    /\ status # "aborted"

\* C8: with a non-empty quest_ids list, every loaded record has its
\* quest_id in the list, from the primary source and from the export.
C8_OnlyListedIds ==
    quest_ids # <<>> =>
        /\ \A i \in 1..Len(loaded) :
            \E j \in 1..Len(quest_ids) : quest_ids[j] = loaded[i].quest_id
        /\ \A i \in 1..Len(quests) :
            \E j \in 1..Len(quest_ids) : quest_ids[j] = quests[i].quest_id

\* C9: a non-dry run that reaches the loop passes every post-filter record
\* to generate_audio exactly once and tallies it in one counter, so when
\* the run is over successful + failed is the number of post-filter records.
C9_EveryRecordTallied ==
    pc = "exited" /\ status \in {"summary", "aborted"} =>
        /\ Len(results) = Len(quests)
        /\ successful + failed = Len(quests)

\* C10, as claimed: no step removes an output file or changes the content
\* of a file that existed before the step.
C10_AppendOnly ==
    [][\A n \in DOMAIN files : n \in DOMAIN files' /\ files'[n] = files[n]]_vars

\* C10, amended: no step removes an output file, and a step changes the
\* content of an existing file only if it is the generate_audio call for
\* the record that file belongs to.
C10_OnlyOwnFileRewritten ==
    [][\A n \in DOMAIN files :
        /\ n \in DOMAIN files'
        /\ files'[n] # files[n] =>
            /\ pc = "loop"
            /\ idx < Len(quests)
            /\ n = FileName(quests[idx + 1].quest_id)]_vars

C10_Witness ==
    /\ pc = "exited"
    /\ status = "summary"
    /\ ~skip_existing
    /\ \E n \in DOMAIN startFiles : files[n] # startFiles[n]

====
